---- MODULE Spec2Model ----
(***************************************************************************)
(* A model of ocr_gui.py: the export layer (export_results and the five    *)
(* exporters), the recognition operations (process_image, process_pdf),    *)
(* the preprocessing pipeline (ImageProcessor.process_image_for_ocr) and   *)
(* the window's handlers process_file and paste_from_clipboard under Tk's  *)
(* event dispatch.                                                         *)
(*                                                                         *)
(* Text is a sequence of one-character strings.  A message built by an     *)
(* f-string is a sequence of tokens: its literal pieces and the values     *)
(* formatted into it, in order.  Calls into libraries (cv2, scipy,         *)
(* skimage, pytesseract, langdetect, fitz, reportlab, fpdf, docx) and the  *)
(* file system are the environment: each outcome they can have (a value,   *)
(* or an exception) is an input of the operation that makes the call.      *)
(***************************************************************************)
EXTENDS Integers, Sequences, FiniteSets, TLC

VARIABLES
    results_text,    \* content of the results_text widget (without the final newline Tk adds)
    export_format,   \* value of the export_format StringVar (an editable combobox)
    file,            \* what is stored at the path the save dialog returns
    dialog,          \* the last messagebox shown
    export_call,     \* observation of the last export_results activation
    source,          \* the file selected for recognition and what the libraries do with it
    config,          \* the OCR configuration widgets and tesseract_languages
    result,          \* what process_image / process_pdf returned
    bitmap,          \* the bitmap handed to process_image_for_ocr, its flags and what its library calls do
    processed,       \* what process_image_for_ocr returned
    tesseract_available,  \* what check_tesseract_detailed found at start-up
    process_btn,     \* state of the Extract button
    status_label,    \* text of the status label
    file_var,        \* the path in the file entry
    clipboard,       \* what ImageGrab.grabclipboard finds
    temp_files,      \* the clipboard_image_<second>.png files in the temporary directory
    clock,           \* the second the wall clock shows
    events,          \* user events Tk has queued and not yet dispatched
    arrived,         \* number of user events so far
    stack,           \* the handler activations in progress, innermost last
    last_paste,      \* observation of the paste_from_clipboard activation that returned last
    last_process     \* observation of what process_file did last to the status, the button and the results

vars == <<results_text, export_format, file, dialog, export_call,
          source, config, result, bitmap, processed,
          tesseract_available, process_btn, status_label, file_var, clipboard,
          temp_files, clock, events, arrived, stack, last_paste, last_process>>

exportVars == <<results_text, export_format, file, dialog, export_call>>
recogVars == <<source, config, result>>
preVars == <<bitmap, processed>>
guiVars == <<tesseract_available, process_btn, status_label, file_var, clipboard,
             temp_files, clock, events, arrived, stack, last_paste, last_process>>

(***************************************************************************)
(* Bounds of the model.                                                    *)
(***************************************************************************)
\* longest text typed into the results area
MaxTextLen == 2

\* longest side of a bitmap, in pixels
MaxSide == 2

\* most tokens image_to_data reports for one image
MaxTokens == 2

\* most pages of a PDF, and most embedded images of a PDF
MaxPages == 2

MaxImages == 2

\* most user events (clicks and key presses) of one run of the window
MaxEvents == 3

(***************************************************************************)
(* Text.                                                                   *)
(***************************************************************************)
Chars == {"a", "&", "<", ">", "\\", "{", "}", "\n"}

Whitespace == {" ", "\n", "\t"}

\* the example of the specification: A & B <C>
ExampleText == <<"A", " ", "&", " ", "B", " ", "<", "C", ">">>

SeqsUpTo(S, n) == UNION {[1..k -> S] : k \in 0..n}

Texts == SeqsUpTo(Chars, MaxTextLen) \cup {ExampleText}

Range(s) == {s[i] : i \in 1..Len(s)}

\* str.strip() leaves nothing
IsBlank(text) == \A i \in 1..Len(text) : text[i] \in Whitespace

\* str.replace(old, new) for a one-character old
RECURSIVE Replace(_, _, _)
Replace(s, old, new) ==
    IF s = <<>> THEN <<>>
    ELSE (IF Head(s) = old THEN new ELSE <<Head(s)>>) \o Replace(Tail(s), old, new)

\* results_text.get(1.0, tk.END): Tk appends a newline to the content
WidgetText(content) == content \o <<"\n">>

(***************************************************************************)
(* Exceptions, dialogs, files.                                             *)
(***************************************************************************)
NoExc == [type |-> "none", msg |-> <<>>]

Raise(type, msg) == [type |-> type, msg |-> msg]

NoDialog == [kind |-> "none", text |-> <<>>]

NoFile == [exists |-> FALSE, data |-> <<>>]

\* a file another program left at the target path
OldFile == [exists |-> TRUE, data |-> <<"old content">>]

FileOf(data) == [exists |-> TRUE, data |-> data]

\* what the file system does with open(file_path, 'w') followed by a write
IoOutcomes == {"ok", "open_fails", "write_fails"}

OpenError == Raise("OSError", <<"[Errno 13] Permission denied">>)

WriteError == Raise("OSError", <<"write failed">>)

\* with open(file_path, 'w') as f: f.write(data): open creates or truncates
\* the file before anything is written
WriteFile(old, data, io) ==
    CASE io = "open_fails" -> [file |-> old, exc |-> OpenError, lib |-> "builtin"]
      [] io = "write_fails" -> [file |-> FileOf(<<>>), exc |-> WriteError, lib |-> "builtin"]
      [] OTHER -> [file |-> FileOf(data), exc |-> NoExc, lib |-> "builtin"]

\* the exporter raised before it touched the path
Raised(old, exc) == [file |-> old, exc |-> exc, lib |-> "builtin"]

\* the outcome r, reached in the branch that drives the library lib
Using(lib, r) == [r EXCEPT !.lib = lib]

(***************************************************************************)
(* The exporters.  Each returns the file left at the path and the          *)
(* exception it raised (NoExc when it returned).                           *)
(***************************************************************************)
export_txt(old, text, io) == WriteFile(old, text, io)

\* EscapeHtml without its last replacement
EscapeHtmlKeepsAmp(text) ==
    Replace(Replace(text, "<", <<"&", "l", "t", ";">>), ">", <<"&", "g", "t", ";">>)

\* line 978: the three replacements in the order the code makes them
EscapeHtml(text) ==
    Replace(Replace(Replace(text, "<", <<"&", "l", "t", ";">>),
                    ">", <<"&", "g", "t", ";">>),
            "&", <<"&", "a", "m", "p", ";">>)

HtmlHead == <<"<!DOCTYPE html>...<div class=\"content\">">>

HtmlTail == <<"</div>\n</body>\n</html>">>

HtmlDocument(text) == HtmlHead \o EscapeHtml(text) \o HtmlTail

export_html(old, text, io) == WriteFile(old, HtmlDocument(text), io)

\* EscapeRtf with the backslash replaced last, after the replacements that
\* introduce backslashes
EscapeRtfBackslashLast(text) ==
    Replace(Replace(Replace(Replace(text, "{", <<"\\", "{">>),
                            "}", <<"\\", "}">>),
                    "\n", <<"\\", "p", "a", "r", " ">>),
            "\\", <<"\\", "\\">>)

\* line 969
EscapeRtf(text) ==
    Replace(Replace(Replace(Replace(text, "\\", <<"\\", "\\">>),
                            "{", <<"\\", "{">>),
                    "}", <<"\\", "}">>),
            "\n", <<"\\", "p", "a", "r", " ">>)

rtf_header ==
    <<"{", "\\rtf1\\ansi\\deff0 ", "{", "\\fonttbl ", "{", "\\f0 Times New Roman;", "}", "}", "}">>

rtf_footer == <<"}">>

RtfDocument(text) == rtf_header \o <<"\\f0\\fs24 ">> \o EscapeRtf(text) \o rtf_footer

export_rtf(old, text, io) == WriteFile(old, RtfDocument(text), io)

\* what importing and running an optional library does
LibOutcomes == {"ok", "missing", "error"}

PdfMissingMsg ==
    <<"PDF export requires '", "reportlab", "' or '", "fpdf",
      "' library. Install with: pip install ", "reportlab", " or pip install ", "fpdf">>

LibError(lib) == Raise("ValueError", <<lib, " failed">>)

\* line 921
PdfFormat(text) == Replace(text, "\n", <<"<", "b", "r", "/", ">", "\n">>)

\* line 938: text.encode('latin-1', 'replace').decode('latin-1')
Latin1Chars == Chars \cup {"A", "B", "C", " "}

Latin1(text) == [i \in 1..Len(text) |-> IF text[i] \in Latin1Chars THEN text[i] ELSE "?"]

\* lines 929-944: the handler of the ImportError of reportlab; what is raised
\* here is raised inside an except clause and leaves export_pdf as it is
ExportPdfFpdf(old, text, fpdf, io) ==
    Using("fpdf",
        CASE fpdf = "missing" -> Raised(old, Raise("ImportError", PdfMissingMsg))
          [] fpdf = "error" -> Raised(old, LibError("fpdf"))
          [] OTHER -> WriteFile(old, <<"%PDF fpdf">> \o Latin1(text), io))

WrapPdf(r) ==
    IF r.exc = NoExc THEN r
    ELSE [r EXCEPT !.exc = Raise("Exception", <<"Error during PDF export: ">> \o r.exc.msg)]

\* export_pdf without the fallback: the ImportError of reportlab is wrapped
\* like any other error
ExportPdfNoFallback(old, text, reportlab, fpdf, io) ==
    CASE reportlab = "missing" ->
            Using("reportlab",
                  WrapPdf(Raised(old, Raise("ImportError", <<"No module named '", "reportlab", "'">>))))
      [] reportlab = "error" -> Using("reportlab", WrapPdf(Raised(old, LibError("reportlab"))))
      [] OTHER -> Using("reportlab",
                        WrapPdf(WriteFile(old, <<"%PDF reportlab">> \o PdfFormat(text), io)))

\* export_pdf falling back to fpdf on every failure of reportlab, not only
\* on its ImportError
ExportPdfFallsBackOnError(old, text, reportlab, fpdf, io) ==
    CASE reportlab \in {"missing", "error"} -> ExportPdfFpdf(old, text, fpdf, io)
      [] OTHER -> Using("reportlab",
                        WrapPdf(WriteFile(old, <<"%PDF reportlab">> \o PdfFormat(text), io)))

\* lines 909-946
export_pdf(old, text, reportlab, fpdf, io) ==
    CASE reportlab = "missing" -> ExportPdfFpdf(old, text, fpdf, io)
      [] reportlab = "error" -> Using("reportlab", WrapPdf(Raised(old, LibError("reportlab"))))
      [] OTHER -> Using("reportlab",
                        WrapPdf(WriteFile(old, <<"%PDF reportlab">> \o PdfFormat(text), io)))

DocxMissingMsg ==
    <<"Word export requires '", "python-docx",
      "' library. Install with: pip install ", "python-docx">>

WrapDocx(r) ==
    IF r.exc = NoExc THEN r
    ELSE [r EXCEPT !.exc = Raise("Exception", <<"Error during DOCX export: ">> \o r.exc.msg)]

\* export_docx with its two handlers merged: the ImportError of docx is
\* wrapped like any other error
ExportDocxWrapsImportError(old, text, docx, io) ==
    Using("docx",
        CASE docx = "missing" ->
                WrapDocx(Raised(old, Raise("ImportError", <<"No module named '", "docx", "'">>)))
          [] docx = "error" -> WrapDocx(Raised(old, LibError("docx")))
          [] OTHER -> WrapDocx(WriteFile(old, <<"docx", "OCR Results", "Generated: ">> \o text, io)))

\* lines 948-962
export_docx(old, text, docx, io) ==
    Using("docx",
        CASE docx = "missing" -> Raised(old, Raise("ImportError", DocxMissingMsg))
          [] docx = "error" -> WrapDocx(Raised(old, LibError("docx")))
          [] OTHER -> WrapDocx(WriteFile(old, <<"docx", "OCR Results", "Generated: ">> \o text, io)))

(***************************************************************************)
(* Paths and the window at rest.                                           *)
(***************************************************************************)
\* a path: none (the empty entry), a file of the user, or the temporary
\* file named after the second it was made in (lines 249-250)
NoPath == [kind |-> "none", id |-> 0]

UserPath(id) == [kind |-> "user", id |-> id]

TempPath(second) == [kind |-> "temp", id |-> second]

NoPaste == [path |-> NoPath, seen |-> NoPath, remove |-> "none", left |-> FALSE,
            dialog |-> "none"]

\* process_file has not got to lines 581-582 yet
NoProcess == [phase |-> "none", path |-> NoPath, out |-> "none", status_label |-> "",
              process_btn |-> "", results_text |-> <<>>, dialog |-> "none"]

\* lines 446 and 1003
ReadyStatus == "Ready - Try Ctrl+V to paste screenshots!"

\* the window with no handler running and no event pending; the Extract
\* button is disabled at start-up without the engine (lines 457-458)
WindowAtRest ==
    /\ process_btn = IF tesseract_available THEN "normal" ELSE "disabled"
    /\ status_label = IF tesseract_available THEN ReadyStatus
                      ELSE "ERROR: Tesseract not configured properly"
    /\ temp_files = {}
    /\ clock = 0
    /\ events = <<>>
    /\ arrived = 0
    /\ stack = <<>>
    /\ last_paste = NoPaste
    /\ last_process = NoProcess

\* the window as the specifications of single operations leave it
WindowUnused ==
    /\ tesseract_available = TRUE
    /\ file_var = NoPath
    /\ clipboard = "none"
    /\ WindowAtRest

(***************************************************************************)
(* export_results.                                                         *)
(***************************************************************************)
\* the keys of file_types (lines 871-877)
FileTypes == {"txt", "pdf", "docx", "rtf", "html"}

\* the values the editable format field holds in the model: the five of the
\* list and one typed by hand
Formats == FileTypes \cup {"odt"}

NoCall == [fmt |-> "", stage |-> "none", reportlab |-> "ok", fpdf |-> "ok", docx |-> "ok",
           io |-> "ok", text |-> <<>>, before |-> NoFile, exc |-> NoExc, lib |-> "none"]

\* lines 888-897
Dispatch(fmt, old, text, env) ==
    CASE fmt = "txt" -> export_txt(old, text, env.io)
      [] fmt = "pdf" -> export_pdf(old, text, env.reportlab, env.fpdf, env.io)
      [] fmt = "docx" -> export_docx(old, text, env.docx, env.io)
      [] fmt = "rtf" -> export_rtf(old, text, env.io)
      [] fmt = "html" -> export_html(old, text, env.io)
      [] OTHER -> Raised(old, NoExc)

ExportEnvs == [reportlab : LibOutcomes, fpdf : LibOutcomes, docx : LibOutcomes, io : IoOutcomes]

\* the libraries and file-system outcomes the chosen format reads: the
\* libraries of its exporter, and the file system when a generator gets to
\* write
EnvFor(fmt) ==
    {e \in ExportEnvs :
        /\ fmt # "pdf" => e.reportlab = "ok" /\ e.fpdf = "ok"
        /\ fmt # "docx" => e.docx = "ok"
        /\ fmt \notin FileTypes => e.io = "ok"
        /\ (fmt = "pdf" /\ e.reportlab # "ok" /\ ~(e.reportlab = "missing" /\ e.fpdf = "ok"))
              => e.io = "ok"
        /\ (fmt = "docx" /\ e.docx # "ok") => e.io = "ok"}

Call(fmt, stage, env, text, before, exc, lib) ==
    [fmt |-> fmt, stage |-> stage, reportlab |-> env.reportlab, fpdf |-> env.fpdf,
     docx |-> env.docx, io |-> env.io, text |-> text, before |-> before, exc |-> exc,
     lib |-> lib]

OkEnv == [reportlab |-> "ok", fpdf |-> "ok", docx |-> "ok", io |-> "ok"]

\* lines 860-902; stage says where the activation ended:
\*   "empty"   the warning of line 864
\*   "escaped" file_types[format_type] raised KeyError, outside every try
\*   "cancel"  the save dialog returned no path
\*   "done"    the exporter returned, success dialog
\*   "failed"  the exporter raised, error dialog
export_results ==
    LET text == WidgetText(results_text) IN
    /\ \/ /\ IsBlank(text)
          /\ dialog' = [kind |-> "showwarning", text |-> <<"No text to export">>]
          /\ export_call' = Call(export_format, "empty", OkEnv, text, file, NoExc, "none")
          /\ file' = file
       \/ /\ ~IsBlank(text)
          /\ export_format \notin FileTypes
          /\ export_call' = Call(export_format, "escaped", OkEnv, text, file,
                                 Raise("KeyError", <<export_format>>), "none")
          /\ UNCHANGED <<dialog, file>>
       \/ /\ ~IsBlank(text)
          /\ export_format \in FileTypes
          /\ export_call' = Call(export_format, "cancel", OkEnv, text, file, NoExc, "none")
          /\ UNCHANGED <<dialog, file>>
       \/ /\ ~IsBlank(text)
          /\ export_format \in FileTypes
          /\ \E env \in EnvFor(export_format) :
                LET r == Dispatch(export_format, file, text, env) IN
                /\ file' = r.file
                /\ export_call' = Call(export_format,
                                       IF r.exc = NoExc THEN "done" ELSE "failed",
                                       env, text, file, r.exc, r.lib)
                /\ dialog' = IF r.exc = NoExc
                             THEN [kind |-> "showinfo", text |-> <<"Exported to ", "path">>]
                             ELSE [kind |-> "showerror",
                                   text |-> <<"Failed to export: ">> \o r.exc.msg]
    /\ UNCHANGED <<results_text, export_format>>
    /\ UNCHANGED <<recogVars, preVars, guiVars>>

\* lines 1001-1003
clear_results ==
    /\ results_text # <<>>
    /\ results_text' = <<>>
    /\ status_label' = ReadyStatus
    /\ UNCHANGED <<export_format, file, dialog, export_call>>
    /\ UNCHANGED <<tesseract_available, process_btn, file_var, clipboard, temp_files,
                   clock, events, arrived, stack, last_paste, last_process>>
    /\ UNCHANGED <<recogVars, preVars>>

NoSource == [kind |-> "none"]
NoConfig == [kind |-> "none"]
NoResult == [kind |-> "none"]
NoBitmap == [kind |-> "none"]

\* the export layer: the user has typed or obtained a text, chosen a format,
\* and the target path holds nothing or another program's file
InitExport ==
    /\ results_text \in Texts
    /\ export_format \in Formats
    /\ file \in {NoFile, OldFile}
    /\ dialog = NoDialog
    /\ export_call = NoCall
    /\ source = NoSource
    /\ config = NoConfig
    /\ result = NoResult
    /\ bitmap = NoBitmap
    /\ processed = NoBitmap
    /\ WindowUnused

NextExport == export_results \/ clear_results

SpecExport == InitExport /\ [][NextExport]_vars

(***************************************************************************)
(* ImageProcessor.process_image_for_ocr (lines 39-92).                     *)
(*                                                                         *)
(* A bitmap is its geometry and pixel format together with the steps that  *)
(* produced it; the pixel values are the libraries' business.  Angles are  *)
(* integers in units of 0.05 degree.  What the calls of one run do is the  *)
(* record env: cv2 says whether normalize/denoise raise, hough is what     *)
(* canny, hough_line and hough_line_peaks give: an exception, or the       *)
(* number of peaks found and the mean of their angles.                     *)
(***************************************************************************)
Deg(d) == d * 20

Abs(x) == IF x < 0 THEN -x ELSE x

\* line 71: 0.1 degree
SignificantAngle == Deg(1) \div 10

Modes == {"1", "L", "RGB", "RGBA"}

Channels(mode) == CASE mode = "RGB" -> 3 [] mode = "RGBA" -> 4 [] OTHER -> 1

Bitmap(mode, w, h) ==
    [mode |-> mode, w |-> w, h |-> h, channels |-> Channels(mode), dtype |-> "uint8",
     binary |-> (mode = "1"), steps |-> <<>>, rotated_by |-> 0]

\* line 43: np.array(img_pil.convert('L'))
ToGray(img) ==
    [img EXCEPT !.mode = "L", !.channels = 1, !.dtype = "uint8", !.binary = FALSE,
                !.steps = Append(@, "gray")]

\* lines 46 and 49: the value range and the noise change, nothing else
Step(img, name) == [img EXCEPT !.steps = Append(@, name)]

\* the normalization with the remainder alone on both sides
NormalizeAngleByRemainder(angle_deg) ==
    IF Abs(angle_deg) > Deg(45) THEN angle_deg % Deg(90) ELSE angle_deg

\* lines 68-69
NormalizeAngle(angle_deg) ==
    IF Abs(angle_deg) > Deg(45)
    THEN IF angle_deg > 0 THEN (angle_deg % Deg(90)) - Deg(90) ELSE angle_deg % Deg(90)
    ELSE angle_deg

\* scipy.ndimage rotate: with reshape the canvas grows to hold the whole
\* rotated bitmap, without it the canvas is kept
Rotate(img, angle, reshape) ==
    [img EXCEPT !.w = IF reshape THEN img.w + img.h ELSE img.w,
                !.h = IF reshape THEN img.w + img.h ELSE img.h,
                !.steps = Append(@, "rotate"),
                !.rotated_by = angle]

HoughError == Raise("ValueError", <<"hough">>)

RotateError == Raise("RuntimeError", <<"rotate">>)

\* line 75
DeskewLog(exc) == <<"Deskewing failed: ">> \o exc.msg

\* Deskew calling rotate without reshape=False (scipy's default is True)
DeskewReshaping(img, hough) ==
    CASE hough.raises -> [image |-> img, log |-> DeskewLog(HoughError), exc |-> NoExc]
      [] hough.size = 0 -> [image |-> img, log |-> <<>>, exc |-> NoExc]
      [] OTHER ->
            LET angle_deg == NormalizeAngle(hough.mean) IN
            CASE Abs(angle_deg) <= SignificantAngle ->
                    [image |-> img, log |-> <<>>, exc |-> NoExc]
              [] hough.rotate = "raises" ->
                    [image |-> img, log |-> DeskewLog(RotateError), exc |-> NoExc]
              [] OTHER -> [image |-> Rotate(img, angle_deg, TRUE), log |-> <<>>, exc |-> NoExc]

\* Deskew rotating by the negative of the angle
DeskewNegating(img, hough) ==
    CASE hough.raises -> [image |-> img, log |-> DeskewLog(HoughError), exc |-> NoExc]
      [] hough.size = 0 -> [image |-> img, log |-> <<>>, exc |-> NoExc]
      [] OTHER ->
            LET angle_deg == NormalizeAngle(hough.mean) IN
            CASE Abs(angle_deg) <= SignificantAngle ->
                    [image |-> img, log |-> <<>>, exc |-> NoExc]
              [] hough.rotate = "raises" ->
                    [image |-> img, log |-> DeskewLog(RotateError), exc |-> NoExc]
              [] OTHER -> [image |-> Rotate(img, -angle_deg, FALSE), log |-> <<>>, exc |-> NoExc]

\* Deskew without its try: what its calls raise leaves the block
DeskewUncaught(img, hough) ==
    CASE hough.raises -> [image |-> img, log |-> <<>>, exc |-> HoughError]
      [] hough.size = 0 -> [image |-> img, log |-> <<>>, exc |-> NoExc]
      [] OTHER ->
            LET angle_deg == NormalizeAngle(hough.mean) IN
            CASE Abs(angle_deg) <= SignificantAngle ->
                    [image |-> img, log |-> <<>>, exc |-> NoExc]
              [] hough.rotate = "raises" ->
                    [image |-> img, log |-> <<>>, exc |-> RotateError]
              [] OTHER -> [image |-> Rotate(img, angle_deg, FALSE), log |-> <<>>, exc |-> NoExc]

\* lines 53-75, the body of "if enable_deskew": the bitmap it passes on,
\* what it printed, and the exception that leaves it (none: the handler of
\* line 74 catches what canny, hough_line, hough_line_peaks, the angle
\* computation and rotate raise, before img_np is assigned)
Deskew(img, hough) ==
    CASE hough.raises -> [image |-> img, log |-> DeskewLog(HoughError), exc |-> NoExc]
      [] hough.size = 0 -> [image |-> img, log |-> <<>>, exc |-> NoExc]
      [] OTHER ->
            LET angle_deg == NormalizeAngle(hough.mean) IN
            CASE Abs(angle_deg) <= SignificantAngle ->
                    [image |-> img, log |-> <<>>, exc |-> NoExc]
              [] hough.rotate = "raises" ->
                    [image |-> img, log |-> DeskewLog(RotateError), exc |-> NoExc]
              [] OTHER -> [image |-> Rotate(img, angle_deg, FALSE), log |-> <<>>, exc |-> NoExc]

\* Threshold with no default binarization
ThresholdAdaptiveOnly(img, enable_adaptive_threshold) ==
    IF enable_adaptive_threshold
    THEN [Step(img, "adaptive") EXCEPT !.binary = TRUE]
    ELSE img

\* lines 78-87
Threshold(img, enable_adaptive_threshold) ==
    IF enable_adaptive_threshold
    THEN [Step(img, "adaptive") EXCEPT !.binary = TRUE]
    ELSE IF img.dtype = "uint8"
         THEN [Step(img, "otsu") EXCEPT !.binary = TRUE]
         ELSE img

Cv2Error == Raise("cv2.error", <<"OpenCV error">>)

\* lines 39-92; deskew_in and deskew_out are the bitmap before and after the
\* deskew block
process_image_for_ocr(img_pil, enable_deskew, enable_adaptive_threshold, env) ==
    LET gray == ToGray(img_pil)
        denoised == Step(Step(gray, "normalize"), "denoise")
        d == IF enable_deskew THEN Deskew(denoised, env.hough)
             ELSE [image |-> denoised, log |-> <<>>, exc |-> NoExc]
    IN  IF env.cv2 = "raise" \/ d.exc # NoExc
        THEN [exc |-> IF env.cv2 = "raise" THEN Cv2Error ELSE d.exc,
              image |-> NoBitmap, deskew_in |-> NoBitmap,
              deskew_out |-> NoBitmap, log |-> <<>>]
        ELSE [exc |-> NoExc,
              image |-> Threshold(d.image, enable_adaptive_threshold),
              deskew_in |-> denoised,
              deskew_out |-> d.image,
              log |-> d.log]

\* mean line angles the model tries, around the thresholds of lines 68 and 71
AngleSamples ==
    {Deg(-90), Deg(-90) + 1, Deg(-60), Deg(-45) - 1, Deg(-45), Deg(-45) + 1, Deg(-30),
     -3, -2, -1, 0, 1, 2, 3,
     Deg(30), Deg(45) - 1, Deg(45), Deg(45) + 1, Deg(60), Deg(90) - 1}

\* what the calls of the deskew block do: canny, hough_line or
\* hough_line_peaks raise; no peak; peaks of mean angle a, and rotate, if
\* it is reached, works or raises
HoughRaises == [raises |-> TRUE, size |-> 0, mean |-> 0, rotate |-> "ok"]

NoLines == [raises |-> FALSE, size |-> 0, mean |-> 0, rotate |-> "ok"]

Lines(a) == [raises |-> FALSE, size |-> 2, mean |-> a, rotate |-> "ok"]

LinesRotateRaises(a) == [raises |-> FALSE, size |-> 2, mean |-> a, rotate |-> "raises"]

HoughOutcomes ==
    {HoughRaises, NoLines, LinesRotateRaises(Deg(30)), LinesRotateRaises(1)}
        \cup {Lines(a) : a \in AngleSamples}

PreEnvs == [cv2 : {"ok", "raise"}, hough : HoughOutcomes]

Bitmaps == {Bitmap(m, w, h) : m \in Modes, w \in 1..MaxSide, h \in 1..MaxSide}

\* one call of process_image_for_ocr on the bitmap and flags drawn by InitPre
PreprocessCall ==
    /\ processed = NoBitmap
    /\ processed' = process_image_for_ocr(bitmap.img, bitmap.enable_deskew,
                                           bitmap.enable_adaptive_threshold, bitmap.env)
    /\ UNCHANGED bitmap
    /\ UNCHANGED <<exportVars, recogVars, guiVars>>

InitPre ==
    /\ bitmap \in [img : Bitmaps, enable_deskew : BOOLEAN,
                    enable_adaptive_threshold : BOOLEAN, env : PreEnvs]
    /\ processed = NoBitmap
    /\ results_text = <<>>
    /\ export_format = "txt"
    /\ file = NoFile
    /\ dialog = NoDialog
    /\ export_call = NoCall
    /\ source = NoSource
    /\ config = NoConfig
    /\ result = NoResult
    /\ WindowUnused

NextPre == PreprocessCall

SpecPre == InitPre /\ [][NextPre]_vars

(***************************************************************************)
(* Recognition: process_image (lines 605-692), process_pdf (695-832).      *)
(*                                                                         *)
(* source is the selected file as the libraries see it.  An image: load    *)
(* (Image.open), img (the bitmap), pre (what the preprocessing calls do),  *)
(* det (the detection pass: image_to_string with --psm 7, then langdetect  *)
(* detect), ocr (the full pass: image_to_data and image_to_string).  A     *)
(* PDF: fitz (import), open (fitz.open), det (rendering the first page,    *)
(* preprocessing it and the detection pass), pages.  The PSM and OEM       *)
(* fields are only formatted into the engine's command line and the        *)
(* result header and are left out.                                         *)
(***************************************************************************)
\* line 657: the confidence of a token that has none
Sentinel == -1

ConfValues == {Sentinel, 0, 40, 100}

ConfLists == SeqsUpTo(ConfValues, MaxTokens)

RECURSIVE Sum(_)
Sum(s) == IF s = <<>> THEN 0 ELSE Head(s) + Sum(Tail(s))

\* the comprehension of line 657 keeping every value
AllConfidences(conf) == conf

\* lines 657 and 806: [int(c) for c in data['conf'] if int(c) != -1]
Confidences(conf) == SelectSeq(conf, LAMBDA c : c # Sentinel)

\* a mean is the pair of its numerator and denominator; the literal 0 of
\* lines 658 and 826 is 0/1
Mean(total, count) == [num |-> total, den |-> count]

Zero == [num |-> 0, den |-> 1]

\* line 658
AverageConfidence(conf) ==
    LET confidences == Confidences(conf) IN
    IF confidences # <<>> THEN Mean(Sum(confidences), Len(confidences)) ELSE Zero

\* what pytesseract returns for one full pass
OcrRaises == [raises |-> TRUE, conf |-> <<>>, text |-> <<>>]

OcrData(conf, text) == [raises |-> FALSE, conf |-> conf, text |-> text]

\* the clean text of a pass: nothing when no token was reported
TextFor(conf) == IF conf = <<>> THEN <<>> ELSE <<"t", "\n">>

OcrOutcomes == {OcrRaises} \cup {OcrData(c, TextFor(c)) : c \in ConfLists}

\* what the detection pass gives: an exception of the engine or of
\* langdetect, a blank sample, or the code langdetect returns
DetRaises(msg) == [kind |-> "raise", code |-> msg]

DetEmpty == [kind |-> "empty", code |-> ""]

DetLang(code) == [kind |-> "lang", code |-> code]

DetectCodes == {"en", "pt"}

DetOutcomes ==
    {DetRaises("TesseractError"), DetRaises("LangDetectException"), DetEmpty}
        \cup {DetLang(c) : c \in DetectCodes}

\* lines 118, 122, 124
DefaultLanguages == <<"eng", "por", "spa", "fra", "deu">>

\* the order list.sort() puts the names in
LanguageOrder == <<"deu", "en", "eng", "fra", "osd", "por", "spa">>

\* what start-up learns of the installed packs: the engine was not found
\* (line 104), get_languages raises, or it returns the names in the order
\* of the directory
NoEngine == [kind |-> "unavailable", names |-> <<>>]

GetLanguagesRaises == [kind |-> "raises", names |-> <<>>]

Installed(names) == [kind |-> "list", names |-> names]

GetLanguagesOutcomes ==
    {NoEngine, GetLanguagesRaises, Installed(<<>>), Installed(<<"osd">>),
     Installed(<<"osd", "eng", "en">>), Installed(<<"osd", "en">>)}

\* line 115: list.remove takes out the first occurrence
RECURSIVE Remove(_, _)
Remove(names, name) ==
    IF names = <<>> THEN <<>>
    ELSE IF Head(names) = name THEN Tail(names)
    ELSE <<Head(names)>> \o Remove(Tail(names), name)

\* line 116, for names that occur once
Sort(names) == SelectSeq(LanguageOrder, LAMBDA name : name \in Range(names))

\* start-up with an empty list left empty
LoadLanguagesNoDefault(outcome) ==
    IF outcome.kind = "list" THEN Sort(Remove(outcome.names, "osd")) ELSE <<>>

\* lines 110-124: tesseract_languages after __init__
LoadLanguages(outcome) ==
    IF outcome.kind = "list"
    THEN LET names == Sort(Remove(outcome.names, "osd"))
         IN  IF names = <<>> THEN DefaultLanguages ELSE names
    ELSE DefaultLanguages

\* the dropdown filled and the selection left as it is
UpdateDropdownKeepsSelection(lang_var, tesseract_languages) == lang_var

\* lines 461-467: the selected language after update_language_dropdown
update_language_dropdown(lang_var, tesseract_languages) ==
    IF tesseract_languages # <<>>
    THEN IF lang_var \notin Range(tesseract_languages)
         THEN IF "eng" \in Range(tesseract_languages) THEN "eng" ELSE tesseract_languages[1]
         ELSE lang_var
    ELSE "eng"

\* lines 319, 322 and 127: the language start-up selects, and the ones the
\* user can select afterwards in the read-only dropdown whose values are
\* tesseract_languages (line 462)
Selectable(tesseract_languages) ==
    {update_language_dropdown("eng", tesseract_languages)} \cup Range(tesseract_languages)

\* tesseract_languages after __init__ (lines 110-124): the sorted names of
\* the installed packs without osd, or the default list
LanguageLists == {LoadLanguages(outcome) : outcome \in GetLanguagesOutcomes}

\* lines 640-644 with the detected code used whether installed or not
ResolveUnchecked(det, lang_var, tesseract_languages) ==
    CASE det.kind = "raise" ->
            [detected |-> <<"Error: ", det.code>>, used |-> lang_var, caught |-> {"detect"}]
      [] det.kind = "empty" ->
            [detected |-> <<"None (no text detected for auto-detection)">>,
             used |-> lang_var, caught |-> {}]
      [] OTHER -> [detected |-> <<det.code>>, used |-> det.code, caught |-> {}]

\* lines 632-648 (and 716-743): the try block of auto-detection
ResolveLanguage(det, lang_var, tesseract_languages) ==
    CASE det.kind = "raise" ->
            [detected |-> <<"Error: ", det.code>>, used |-> lang_var, caught |-> {"detect"}]
      [] det.kind = "empty" ->
            [detected |-> <<"None (no text detected for auto-detection)">>,
             used |-> lang_var, caught |-> {}]
      [] det.code \in Range(tesseract_languages) ->
            [detected |-> <<det.code>>, used |-> det.code, caught |-> {}]
      [] OTHER ->
            [detected |-> <<det.code, " (Tesseract pack not installed)">>,
             used |-> lang_var, caught |-> {}]

\* lines 628-629, 712-713
NotDetected(lang_var) == [detected |-> <<"N/A">>, used |-> lang_var, caught |-> {}]

ImageTroubleshooting ==
    <<"\n\nTroubleshooting:\n1. Check if file is a valid image\n2. Verify Tesseract installation and language packs (see 'Show Diagnostics')\n3. Check file permissions\n4. Ensure all Python dependencies are installed (see 'Show Diagnostics')">>

PdfTroubleshooting ==
    <<"\n\nTroubleshooting:\n1. Install PyMuPDF: pip install PyMuPDF\n2. Check if PDF is readable\n3. Verify Tesseract installation and language packs (see 'Show Diagnostics')\n4. Ensure all Python dependencies are installed (see 'Show Diagnostics')">>

\* what an operation hands to its caller: the string it returns, as a
\* record, or the exception that leaves it
Returned(r) == [raised |-> NoExc, value |-> r]

Escapes(exc) == [raised |-> exc, value |-> NoResult]

\* an outer handler that lets the exception through
Reraise(prefix, exc, guidance, caught) == Escapes(exc)

\* lines 691-692 and 831-832: the outer handler
ErrorResult(prefix, exc, guidance, caught) ==
    Returned([kind |-> "error",
              text |-> <<prefix>> \o exc.msg \o guidance,
              caught |-> caught \cup {"outer"}])

LoadError == Raise("UnidentifiedImageError", <<"cannot identify image file">>)

TesseractError == Raise("TesseractError", <<"tesseract failed">>)

\* lines 613-625
PrepareImage(src, cfg) ==
    IF cfg.preprocessing
    THEN process_image_for_ocr(src.img, cfg.deskew, cfg.adaptive, src.pre)
    ELSE [exc |-> NoExc,
          image |-> IF src.img.mode \notin {"1", "L", "RGB"}
                    THEN [src.img EXCEPT !.mode = "RGB", !.channels = 3]
                    ELSE src.img,
          deskew_in |-> NoBitmap, deskew_out |-> NoBitmap, log |-> <<>>]

\* lines 605-692
process_image(src, cfg) ==
    LET pre == PrepareImage(src, cfg)
        lang == IF cfg.auto_detect
                THEN ResolveLanguage(src.det, cfg.lang_var, cfg.tesseract_languages)
                ELSE NotDetected(cfg.lang_var)
        local == lang.caught \cup (IF pre.log # <<>> THEN {"deskew"} ELSE {})
    IN  CASE src.load = "raise" ->
                ErrorResult("Error processing image: ", LoadError, ImageTroubleshooting, {})
          [] pre.exc # NoExc ->
                ErrorResult("Error processing image: ", pre.exc, ImageTroubleshooting, {})
          [] src.ocr.raises ->
                ErrorResult("Error processing image: ", TesseractError,
                            ImageTroubleshooting, local)
          [] OTHER ->
                Returned([kind |-> "image",
                          selected |-> cfg.lang_var,
                          detected |-> lang.detected,
                          used |-> lang.used,
                          preprocessing |-> cfg.preprocessing,
                          confidence |-> AverageConfidence(src.ocr.conf),
                          characters |-> Len(src.ocr.text),
                          text |-> IF IsBlank(src.ocr.text)
                                   THEN <<"No text found in image. Try:...">>
                                   ELSE src.ocr.text,
                          caught |-> local])

\* image_to_data returned conf (line 804) and image_to_string raised (line
\* 807), before the totals are touched
OcrStringRaises(conf) == [raises |-> TRUE, conf |-> conf, text |-> <<>>]

\* what converting, preprocessing and recognizing one embedded image gives
PdfImageOutcomes ==
    {OcrRaises,
     OcrStringRaises(<<100>>),
     OcrData(<<Sentinel>>, <<>>),
     OcrData(<<100>>, <<"t", "\n">>),
     OcrData(<<Sentinel, 40, 40>>, <<"t", "\n">>)}

Entry(page, kind, image) == [page |-> page, kind |-> kind, image |-> image]

\* lines 775-821: one embedded image
ImageEntry(img, page_num, img_index) ==
    CASE img.raises -> Entry(page_num, "image_error", img_index)
      [] ~IsBlank(img.text) -> Entry(page_num, "image_ocr", img_index)
      [] OTHER -> Entry(page_num, "image_no_text", img_index)

\* the loop over the images of one page with the try around the loop: the
\* first image that raises ends it
RECURSIVE ImageEntriesStopAtError(_, _, _)
ImageEntriesStopAtError(images, page_num, img_index) ==
    IF images = <<>> THEN <<>>
    ELSE IF Head(images).raises
         THEN <<ImageEntry(Head(images), page_num, img_index)>>
         ELSE <<ImageEntry(Head(images), page_num, img_index)>>
                 \o ImageEntriesStopAtError(Tail(images), page_num, img_index + 1)

\* lines 774-821: the loop over the images of one page
RECURSIVE ImageEntries(_, _, _)
ImageEntries(images, page_num, img_index) ==
    IF images = <<>> THEN <<>>
    ELSE <<ImageEntry(Head(images), page_num, img_index)>>
            \o ImageEntries(Tail(images), page_num, img_index + 1)

\* lines 761-821: one page
PageEntries(page, page_num) ==
    (IF page.text THEN <<Entry(page_num, "regular_text", 0)>> ELSE <<>>)
        \o (IF page.images # <<>>
            THEN <<Entry(page_num, "images_found", Len(page.images))>>
                    \o ImageEntries(page.images, page_num, 1)
            ELSE <<>>)

\* lines 760-821: the loop over the pages
RECURSIVE DocEntries(_, _)
DocEntries(pages, page_num) ==
    IF pages = <<>> THEN <<>>
    ELSE PageEntries(Head(pages), page_num) \o DocEntries(Tail(pages), page_num + 1)

\* the embedded images of a document in the order the loops visit them
RECURSIVE AllImages(_)
AllImages(pages) ==
    IF pages = <<>> THEN <<>> ELSE Head(pages).images \o AllImages(Tail(pages))

\* the totals accumulating one average per image instead of its tokens
RECURSIVE TotalsOfAverages(_)
TotalsOfAverages(images) ==
    IF images = <<>> THEN [confidence |-> 0, words |-> 0]
    ELSE LET rest == TotalsOfAverages(Tail(images))
             confidences == Confidences(Head(images).conf)
         IN  IF ~Head(images).raises /\ confidences # <<>>
             THEN [confidence |-> rest.confidence + (Sum(confidences) \div Len(confidences)),
                   words |-> rest.words + 1]
             ELSE rest

\* lines 708-709, 806-811: total_confidence and total_words after the loops
RECURSIVE Totals(_)
Totals(images) ==
    IF images = <<>> THEN [confidence |-> 0, words |-> 0]
    ELSE LET rest == Totals(Tail(images))
             confidences == Confidences(Head(images).conf)
         IN  IF ~Head(images).raises /\ confidences # <<>>
             THEN [confidence |-> rest.confidence + Sum(confidences),
                   words |-> rest.words + Len(confidences)]
             ELSE rest

\* the language of each image_to_data call of the loops (line 801)
LanguagesPassed(images, lang) == [i \in 1..Len(images) |-> lang]

\* the calls of the engine process_pdf makes, in order: the detection pass
\* on the rendering of a page (line 731, no -l option) and the recognition
\* of an embedded image with the language of its -l option (lines 801-804)
DetectCall(page) == [op |-> "detect", page |-> page, image |-> 0, lang |-> "default"]

RecognizeCall(page, image, lang) ==
    [op |-> "recognize", page |-> page, image |-> image, lang |-> lang]

\* the detection pass run again at the top of every page
RECURSIVE PageCallsRedetecting(_, _, _)
PageCallsRedetecting(pages, page_num, lang) ==
    IF pages = <<>> THEN <<>>
    ELSE (IF page_num > 1 THEN <<DetectCall(page_num)>> ELSE <<>>)
            \o [i \in 1..Len(Head(pages).images) |-> RecognizeCall(page_num, i, lang)]
            \o PageCallsRedetecting(Tail(pages), page_num + 1, lang)

\* lines 760-807: the recognition calls of the pages from page_num on
RECURSIVE PageCalls(_, _, _)
PageCalls(pages, page_num, lang) ==
    IF pages = <<>> THEN <<>>
    ELSE [i \in 1..Len(Head(pages).images) |-> RecognizeCall(page_num, i, lang)]
            \o PageCalls(Tail(pages), page_num + 1, lang)

\* lines 715-731 and 760-807
EngineCalls(src, cfg, lang) ==
    (IF cfg.auto_detect /\ Len(src.pages) > 0 THEN <<DetectCall(1)>> ELSE <<>>)
        \o PageCalls(src.pages, 1, lang)

PdfOpenError == Raise("FileDataError", <<"cannot open broken document">>)

\* lines 695-832
process_pdf(src, cfg) ==
    LET lang == IF cfg.auto_detect /\ Len(src.pages) > 0
                THEN ResolveLanguage(src.det, cfg.lang_var, cfg.tesseract_languages)
                ELSE NotDetected(cfg.lang_var)
        images == AllImages(src.pages)
        totals == Totals(images)
        failed == {i \in 1..Len(images) : images[i].raises}
    IN  CASE src.fitz = "missing" ->
                Returned([kind |-> "error",
                          text |-> <<"Error: PyMuPDF not installed. Install with: pip install PyMuPDF">>,
                          caught |-> {"import"}])
          [] src.open = "raise" ->
                ErrorResult("Error processing PDF: ", PdfOpenError, PdfTroubleshooting, {})
          [] OTHER ->
                Returned([kind |-> "pdf",
                          selected |-> cfg.lang_var,
                          detected |-> lang.detected,
                          used |-> lang.used,
                          preprocessing |-> cfg.preprocessing,
                          pages |-> Len(src.pages),
                          confidence |-> IF totals.words > 0
                                         THEN Mean(totals.confidence, totals.words)
                                         ELSE Zero,
                          entries |-> DocEntries(src.pages, 1),
                          languages |-> LanguagesPassed(images, lang.used),
                          calls |-> EngineCalls(src, cfg, lang.used),
                          caught |-> lang.caught
                                      \cup (IF failed # {} THEN {"image"} ELSE {})])

(***************************************************************************)
(* The sources and configurations the recognition operations are run on.   *)
(***************************************************************************)
DefaultPre == [cv2 |-> "ok", hough |-> NoLines]

\* what the preprocessing calls do in the recognition runs
RecogPreEnvs ==
    {DefaultPre,
     [cv2 |-> "ok", hough |-> Lines(Deg(30))],
     [cv2 |-> "ok", hough |-> HoughRaises],
     [cv2 |-> "raise", hough |-> NoLines]}

ImageSource(load, img, pre, det, ocr) ==
    [kind |-> "image", load |-> load, img |-> img, pre |-> pre, det |-> det, ocr |-> ocr]

ImageSources ==
    {ImageSource("raise", Bitmap("L", 1, 1), DefaultPre, DetEmpty, OcrRaises)}
        \cup {ImageSource("ok", Bitmap(m, 2, 1), pre, det, ocr) :
                m \in {"L", "RGBA"}, pre \in RecogPreEnvs, det \in DetOutcomes,
                ocr \in OcrOutcomes}

Page(text, images) == [text |-> text, images |-> images]

\* the documents of at most p pages holding at most k embedded images
RECURSIVE Docs(_, _)
Docs(p, k) ==
    IF p = 0 THEN {<<>>}
    ELSE {<<>>} \cup UNION {
            {<<Page(t, images)>> \o rest : rest \in Docs(p - 1, k - Len(images))} :
                t \in BOOLEAN, images \in SeqsUpTo(PdfImageOutcomes, k)}

PdfSource(fitz, open, det, pages) ==
    [kind |-> "pdf", fitz |-> fitz, open |-> open, det |-> det, pages |-> pages]

PdfSources ==
    {PdfSource("missing", "ok", DetEmpty, <<>>), PdfSource("ok", "raise", DetEmpty, <<>>)}
        \cup {PdfSource("ok", "ok", det, pages) :
                det \in DetOutcomes, pages \in Docs(MaxPages, MaxImages)}

Flags == [auto_detect : BOOLEAN, preprocessing : BOOLEAN, deskew : BOOLEAN, adaptive : BOOLEAN]

Config(flags, lang_var, tesseract_languages) ==
    [auto_detect |-> flags.auto_detect, preprocessing |-> flags.preprocessing,
     deskew |-> flags.deskew, adaptive |-> flags.adaptive,
     lang_var |-> lang_var, tesseract_languages |-> tesseract_languages]

\* the settings a run can find: the list start-up made, a language that
\* can be selected with it, and the boxes
Configs ==
    UNION {{Config(f, l, langs) : f \in Flags, l \in Selectable(langs)} :
                langs \in LanguageLists}

\* of the default list the language start-up selects and one other are
\* tried; the inputs a run does not read are at their defaults: the detection
\* outcome without auto-detect, the preprocessing outcomes and the deskew
\* and threshold boxes (ticked by default, lines 385 and 392) without
\* preprocessing or, for a PDF, always; for a PDF the preprocessing box
\* too (ticked by default, line 380), since what preprocessing does to the
\* detection image and to an embedded image is part of det and of the
\* outcome of that image
Relevant(src, cfg) ==
    /\ ~cfg.auto_detect => src.det = DetEmpty
    /\ (src.kind = "image" /\ ~cfg.preprocessing) => src.pre = DefaultPre
    /\ (src.kind = "pdf" \/ ~cfg.preprocessing) => cfg.deskew /\ cfg.adaptive
    /\ src.kind = "pdf" => cfg.preprocessing
    /\ cfg.tesseract_languages = DefaultLanguages => cfg.lang_var \in {"eng", "por"}

ProcessImage ==
    /\ source.kind = "image"
    /\ result = NoResult
    /\ result' = process_image(source, config)
    /\ UNCHANGED <<source, config>>
    /\ UNCHANGED <<exportVars, preVars, guiVars>>

ProcessPdf ==
    /\ source.kind = "pdf"
    /\ result = NoResult
    /\ result' = process_pdf(source, config)
    /\ UNCHANGED <<source, config>>
    /\ UNCHANGED <<exportVars, preVars, guiVars>>

InitRecog ==
    /\ source \in ImageSources \cup PdfSources
    /\ config \in Configs
    /\ Relevant(source, config)
    /\ result = NoResult
    /\ results_text = <<>>
    /\ export_format = "txt"
    /\ file = NoFile
    /\ dialog = NoDialog
    /\ export_call = NoCall
    /\ bitmap = NoBitmap
    /\ processed = NoBitmap
    /\ WindowUnused

NextRecog == ProcessImage \/ ProcessPdf

SpecRecog == InitRecog /\ [][NextRecog]_vars

(***************************************************************************)
(* The window: the handlers process_file (lines 571-603) and               *)
(* paste_from_clipboard (lines 240-273) under Tk's event dispatch.         *)
(*                                                                         *)
(* Tk runs on one thread.  A user event (a click, a key press) is queued   *)
(* when it happens and its handler runs when the event loop dispatches it: *)
(* mainloop (line 1015) when no handler is running, and root.update()      *)
(* (lines 257 and 583) in the middle of a handler, which dispatches every  *)
(* pending event before it returns.  stack holds the activations in        *)
(* progress, the innermost last; each is at a position pc:                 *)
(*   process_file:          start -> update (line 583) -> run (585-602)    *)
(*   paste_from_clipboard:  start -> update (line 257) -> call (260)       *)
(*                          -> remove (263-268)                            *)
(***************************************************************************)
UserEvents == {"extract_click", "paste_click", "ctrl_v"}

Frame(fn, pc, path, seen) == [fn |-> fn, pc |-> pc, path |-> path, seen |-> seen]

Top == stack[Len(stack)]

Running(fn, pc) == stack # <<>> /\ Top.fn = fn /\ Top.pc = pc

Pop == SubSeq(stack, 1, Len(stack) - 1)

SetTop(frame) == [stack EXCEPT ![Len(stack)] = frame]

\* process_file returns: to the paste_from_clipboard activation that called
\* it (line 260), which learns in seen what was recognized, or to the event
\* loop that dispatched it
ReturnToCaller(seen) ==
    IF Pop # <<>> /\ Pop[Len(Pop)].pc = "remove"
    THEN [Pop EXCEPT ![Len(Pop)].seen = seen]
    ELSE Pop

\* os.path.exists: of the user's files the first exists and the second does
\* not
Exists(path) ==
    CASE path.kind = "user" -> path.id = 1
      [] path.kind = "temp" -> path.id \in temp_files
      [] OTHER -> FALSE

\* the user clicks Extract or Paste, or presses Ctrl+V: Tk queues the event
UserEvent ==
    /\ arrived < MaxEvents
    /\ \E e \in UserEvents : events' = Append(events, e)
    /\ arrived' = arrived + 1
    /\ UNCHANGED <<tesseract_available, process_btn, status_label, file_var, clipboard,
                   temp_files, clock, stack, last_paste>>
    /\ UNCHANGED last_process
    /\ UNCHANGED <<exportVars, recogVars, preVars>>

\* mainloop, or root.update() inside a handler, dispatches the oldest
\* pending event: the command of the Extract button unless the button is
\* disabled (line 402), the command of the Paste button (line 293) or the
\* binding of Ctrl+V (lines 234-235)
DispatchEvent ==
    /\ events # <<>>
    /\ IF stack = <<>> THEN TRUE ELSE Top.pc = "update"
    /\ events' = Tail(events)
    /\ stack' = IF Head(events) = "extract_click"
                THEN IF process_btn = "normal"
                     THEN Append(stack, Frame("process_file", "start", NoPath, NoPath))
                     ELSE stack
                ELSE Append(stack, Frame("paste_from_clipboard", "start", NoPath, NoPath))
    /\ UNCHANGED <<tesseract_available, process_btn, status_label, file_var, clipboard,
                   temp_files, clock, arrived, last_paste>>
    /\ UNCHANGED last_process
    /\ UNCHANGED <<exportVars, recogVars, preVars>>

\* root.update() returns when no event is pending
UpdateReturns ==
    /\ stack # <<>>
    /\ Top.pc = "update"
    /\ events = <<>>
    /\ stack' = SetTop([Top EXCEPT !.pc = IF Top.fn = "process_file" THEN "run" ELSE "call"])
    /\ UNCHANGED <<tesseract_available, process_btn, status_label, file_var, clipboard,
                   temp_files, clock, events, arrived, last_paste>>
    /\ UNCHANGED last_process
    /\ UNCHANGED <<exportVars, recogVars, preVars>>

PasteEnded(shown) ==
    [path |-> NoPath, seen |-> NoPath, remove |-> "none", left |-> FALSE, dialog |-> shown]

\* lines 242-256 and 270-273: grab the clipboard, save the image under the
\* name of the current second, put the path in the entry
PasteGrab ==
    /\ Running("paste_from_clipboard", "start")
    /\ \/ /\ clipboard = "none"
          /\ dialog' = [kind |-> "showwarning", text |-> <<"No image found in clipboard...">>]
          /\ stack' = Pop
          /\ last_paste' = PasteEnded("showwarning")
          /\ UNCHANGED <<temp_files, clock, file_var, status_label>>
       \/ /\ clipboard = "image"
          /\ dialog' = [kind |-> "showerror",
                        text |-> <<"Failed to paste from clipboard: ", "save failed">>]
          /\ stack' = Pop
          /\ last_paste' = PasteEnded("showerror")
          /\ UNCHANGED <<temp_files, clock, file_var, status_label>>
       \/ /\ clipboard = "image"
          /\ \E now \in {clock, clock + 1} :
                /\ clock' = now
                /\ temp_files' = temp_files \cup {now}
                /\ file_var' = TempPath(now)
                /\ stack' = SetTop(Frame("paste_from_clipboard", "update", TempPath(now), NoPath))
          /\ status_label' = "Clipboard image loaded! Processing..."
          /\ UNCHANGED <<dialog, last_paste>>
    /\ UNCHANGED <<tesseract_available, process_btn, clipboard, events, arrived>>
    /\ UNCHANGED <<results_text, export_format, file, export_call>>
    /\ UNCHANGED last_process
    /\ UNCHANGED <<recogVars, preVars>>

\* line 260: self.process_file()
PasteCall ==
    /\ Running("paste_from_clipboard", "call")
    /\ stack' = Append(SetTop([Top EXCEPT !.pc = "remove"]),
                       Frame("process_file", "start", NoPath, NoPath))
    /\ UNCHANGED <<tesseract_available, process_btn, status_label, file_var, clipboard,
                   temp_files, clock, events, arrived, last_paste>>
    /\ UNCHANGED last_process
    /\ UNCHANGED <<exportVars, recogVars, preVars>>

\* lines 263-268: os.remove in a try whose handler passes, then the success
\* dialog; removing a file that is not there fails
PasteRemove ==
    /\ Running("paste_from_clipboard", "remove")
    /\ \E rm \in {"ok", "fails"} :
          /\ rm = "ok" => Exists(Top.path)
          /\ temp_files' = IF rm = "ok" THEN temp_files \ {Top.path.id} ELSE temp_files
          /\ last_paste' = [path |-> Top.path, seen |-> Top.seen, remove |-> rm,
                            left |-> Top.path.id \in temp_files', dialog |-> "showinfo"]
    /\ dialog' = [kind |-> "showinfo", text |-> <<"Clipboard image processed successfully!">>]
    /\ stack' = Pop
    /\ UNCHANGED <<tesseract_available, process_btn, status_label, file_var, clipboard,
                   clock, events, arrived>>
    /\ UNCHANGED <<results_text, export_format, file, export_call>>
    /\ UNCHANGED last_process
    /\ UNCHANGED <<recogVars, preVars>>

\* lines 572-582: the checks of the path in the entry, then the status and
\* the button
ProcessStart ==
    /\ Running("process_file", "start")
    /\ \/ /\ file_var = NoPath
          /\ dialog' = [kind |-> "showerror",
                        text |-> <<"Please select a file first or paste from clipboard">>]
          /\ stack' = ReturnToCaller(NoPath)
          /\ UNCHANGED <<status_label, process_btn, last_process>>
       \/ /\ file_var # NoPath
          /\ ~Exists(file_var)
          /\ dialog' = [kind |-> "showerror", text |-> <<"File not found">>]
          /\ stack' = ReturnToCaller(NoPath)
          /\ UNCHANGED <<status_label, process_btn, last_process>>
       \/ /\ Exists(file_var)
          /\ status_label' = "Processing..."
          /\ process_btn' = "disabled"
          /\ stack' = SetTop(Frame("process_file", "update", file_var, NoPath))
          /\ last_process' = [NoProcess EXCEPT !.phase = "processing", !.path = file_var,
                                                !.status_label = status_label',
                                                !.process_btn = process_btn']
          /\ UNCHANGED dialog
    /\ UNCHANGED <<tesseract_available, file_var, clipboard, temp_files, clock, events,
                   arrived, last_paste>>
    /\ UNCHANGED <<results_text, export_format, file, export_call>>
    /\ UNCHANGED <<recogVars, preVars>>

\* process_file taking a returned error text for a failure of its own
FinishErrorOnFailure(out) ==
    [results_text |-> CASE out = "text" -> <<"=== OCR RESULTS ===">>
                        [] out = "error_text" -> <<"Error processing image: ">>
                        [] OTHER -> <<"ERROR: ", "Processing failed: ">>,
     status_label |-> IF out = "text" THEN "Complete! Ready to export." ELSE "Error",
     dialog       |-> IF out = "text" THEN "none" ELSE "showerror",
     process_btn  |-> "normal"]

\* process_file with the button enabled at the end of the try block instead
\* of in a finally clause
FinishWithoutFinally(out) ==
    [results_text |-> CASE out = "text" -> <<"=== OCR RESULTS ===">>
                        [] out = "error_text" -> <<"Error processing image: ">>
                        [] OTHER -> <<"ERROR: ", "Processing failed: ">>,
     status_label |-> IF out = "raises" THEN "Error" ELSE "Complete! Ready to export.",
     dialog       |-> IF out = "raises" THEN "showerror" ELSE "none",
     process_btn  |-> IF out = "raises" THEN "disabled" ELSE "normal"]

\* lines 591-602: what process_file shows of the outcome of the try block:
\* the returned string, be it the text or an error text, with the status
\* "Complete! Ready to export."; the handler of line 594 shows the exception
\* in a dialog and in the results area with the status "Error"; the finally
\* clause enables the button
Finish(out) ==
    [results_text |-> CASE out = "text" -> <<"=== OCR RESULTS ===">>
                        [] out = "error_text" -> <<"Error processing image: ">>
                        [] OTHER -> <<"ERROR: ", "Processing failed: ">>,
     status_label |-> IF out = "raises" THEN "Error" ELSE "Complete! Ready to export.",
     dialog       |-> IF out = "raises" THEN "showerror" ELSE "none",
     process_btn  |-> "normal"]

\* lines 585-602: the recognition of file_path and the display of what it
\* returned: the text, or the error text when it failed (a file removed
\* since line 576 cannot be loaded, and no engine recognizes anything); an
\* exception in the try block goes to the handler of line 594
ProcessRun ==
    /\ Running("process_file", "run")
    /\ \E out \in {"text", "error_text", "raises"} :
          /\ ~Exists(Top.path) => out = "error_text"
          /\ ~tesseract_available => out # "text"
          /\ results_text' = Finish(out).results_text
          /\ status_label' = Finish(out).status_label
          /\ dialog' = IF Finish(out).dialog = "showerror"
                       THEN [kind |-> "showerror", text |-> <<"Processing failed: ">>]
                       ELSE dialog
          /\ process_btn' = Finish(out).process_btn
          /\ last_process' = [phase |-> "returned", path |-> Top.path, out |-> out,
                              status_label |-> status_label', process_btn |-> process_btn',
                              results_text |-> results_text', dialog |-> Finish(out).dialog]
    /\ stack' = ReturnToCaller(Top.path)
    /\ UNCHANGED <<tesseract_available, file_var, clipboard, temp_files, clock, events,
                   arrived, last_paste>>
    /\ UNCHANGED <<export_format, file, export_call>>
    /\ UNCHANGED <<recogVars, preVars>>

\* the window after __init__: an empty entry, or the path of a file of the
\* user in it
InitGui ==
    /\ tesseract_available \in BOOLEAN
    /\ file_var \in {NoPath, UserPath(1), UserPath(2)}
    /\ clipboard \in {"image", "none"}
    /\ WindowAtRest
    /\ results_text = <<>>
    /\ export_format = "txt"
    /\ file = NoFile
    /\ dialog = NoDialog
    /\ export_call = NoCall
    /\ source = NoSource
    /\ config = NoConfig
    /\ result = NoResult
    /\ bitmap = NoBitmap
    /\ processed = NoBitmap

NextGui ==
    \/ UserEvent
    \/ DispatchEvent
    \/ UpdateReturns
    \/ PasteGrab
    \/ PasteCall
    \/ PasteRemove
    \/ ProcessStart
    \/ ProcessRun

SpecGui == InitGui /\ [][NextGui]_vars

(***************************************************************************)
(* Properties of the export layer.                                         *)
(***************************************************************************)
\* the last export_results activation called the exporter of fmt
Exported(fmt) == export_call.fmt = fmt /\ export_call.stage \in {"done", "failed"}

\* the part of an HTML document between HtmlHead and HtmlTail
ContentBlock(data) == SubSeq(data, Len(HtmlHead) + 1, Len(data) - Len(HtmlTail))

RECURSIVE FlatMap(_, _)
FlatMap(f, s) == IF s = <<>> THEN <<>> ELSE f[Head(s)] \o FlatMap(f, Tail(s))

\* each metacharacter's entity, every other character itself
HtmlEntity ==
    [c \in Chars \cup Range(ExampleText) \cup {"\n"} |->
        CASE c = "&" -> <<"&", "a", "m", "p", ";">>
          [] c = "<" -> <<"&", "l", "t", ";">>
          [] c = ">" -> <<"&", "g", "t", ";">>
          [] OTHER -> <<c>>]

EntityAt(b, i, ent) ==
    /\ i + Len(ent) - 1 <= Len(b)
    /\ SubSeq(b, i, i + Len(ent) - 1) = ent

\* C1: the content block export_html writes is the text with every
\* character escaped exactly once: & as &amp;, < as &lt;, > as &gt;
\* (for A & B <C>: A &amp; B &lt;C&gt;).
C1_HtmlEscapesEachCharOnce ==
    (Exported("html") /\ export_call.stage = "done")
        => ContentBlock(file.data) = FlatMap(HtmlEntity, export_call.text)

\* C2: the content block export_html writes holds no < and no >, and every
\* & in it starts one of the entities &lt; &gt; &amp;.
C2_HtmlBlockHasNoRawMetachar ==
    (Exported("html") /\ export_call.stage = "done")
        => LET b == ContentBlock(file.data) IN
           \A i \in 1..Len(b) :
              /\ b[i] \notin {"<", ">"}
              /\ b[i] = "&" =>
                    \/ EntityAt(b, i, HtmlEntity["<"])
                    \/ EntityAt(b, i, HtmlEntity[">"])
                    \/ EntityAt(b, i, HtmlEntity["&"])

C2_Witness ==
    /\ Exported("html")
    /\ export_call.stage = "done"
    /\ export_call.text = WidgetText(ExampleText)

\* C5: export_pdf with neither reportlab nor fpdf importable raises an error
\* whose message names both libraries; export_results shows it in a
\* "Failed to export" error dialog, shows no success dialog, and the file at
\* the target path is what it was before the call.
C5_PdfWithoutLibraries ==
    (Exported("pdf") /\ export_call.reportlab = "missing" /\ export_call.fpdf = "missing")
        => /\ export_call.stage = "failed"
           /\ {"reportlab", "fpdf"} \subseteq Range(export_call.exc.msg)
           /\ dialog.kind = "showerror"
           /\ dialog.text = <<"Failed to export: ">> \o export_call.exc.msg
           /\ file = export_call.before

C5_Witness ==
    /\ Exported("pdf")
    /\ export_call.reportlab = "missing"
    /\ export_call.fpdf = "missing"
    /\ export_call.before = OldFile

\* C9: every exporter either succeeds with the complete file written or
\* raises and leaves the target path as it was before the call.
C9_ExportIsAllOrNothing ==
    /\ export_call.stage = "done" => file.exists /\ file.data # <<>>
    /\ export_call.stage = "failed" => file = export_call.before

\* the generator export_pdf prefers among those that can be imported
Preferred(call) == IF call.reportlab # "missing" THEN "reportlab" ELSE "fpdf"

WrittenBy(lib) ==
    /\ export_call.stage = "done"
    /\ file.exists
    /\ file.data # <<>>
    /\ file.data[1] = IF lib = "reportlab" THEN "%PDF reportlab" ELSE "%PDF fpdf"

\* C10 as stated: fpdf is used exactly when reportlab is not available, and
\* whenever one of the two libraries is available and works the PDF is
\* written by the preferred available one.
C10_PdfWrittenWheneverALibraryWorks ==
    Exported("pdf") =>
        /\ export_call.lib = "fpdf" <=> export_call.reportlab = "missing"
        /\ ((export_call.reportlab = "ok" \/ export_call.fpdf = "ok") /\ export_call.io = "ok")
              => WrittenBy(Preferred(export_call))

\* C10 amended: fpdf is used exactly when reportlab cannot be imported; the
\* PDF is written by the preferred importable library when that library
\* works; when reportlab can be imported and fails, export_pdf raises
\* "Error during PDF export" and leaves the path alone, whatever fpdf would
\* have done.
C10_PdfPrefersReportlab ==
    Exported("pdf") =>
        /\ export_call.lib = "fpdf" <=> export_call.reportlab = "missing"
        /\ (export_call[Preferred(export_call)] = "ok" /\ export_call.io = "ok")
              => WrittenBy(Preferred(export_call))
        /\ export_call.reportlab = "error"
              => /\ export_call.stage = "failed"
                 /\ export_call.lib = "reportlab"
                 /\ export_call.exc.msg[1] = "Error during PDF export: "
                 /\ file = export_call.before

C10_Witness ==
    /\ Exported("pdf")
    /\ export_call.reportlab = "error"
    /\ export_call.fpdf = "ok"
    /\ export_call.io = "ok"

\* the optional export libraries a message can name
LibraryNames == {"reportlab", "fpdf", "python-docx"}

LibrariesNamed(msg) == Range(msg) \cap LibraryNames

\* C11 as stated, for the docx export: when no library for it is available
\* it fails with a missing-dependency error that names two optional
\* libraries.
C11_DocxNamesTwoLibraries ==
    (Exported("docx") /\ export_call.docx = "missing")
        => /\ export_call.stage = "failed"
           /\ export_call.exc.type = "ImportError"
           /\ Cardinality(LibrariesNamed(export_call.exc.msg)) = 2

\* C11 amended: export_docx drives one library, python-docx, and has no
\* alternative; when it cannot be imported the export fails with an
\* ImportError that names python-docx alone and the path is left as it was;
\* when it is imported and fails the error is "Error during DOCX export";
\* when it works and the file system does, the document is written.
C11_DocxSingleLibrary ==
    Exported("docx") =>
        /\ export_call.lib = "docx"
        /\ export_call.docx = "missing"
              => /\ export_call.stage = "failed"
                 /\ export_call.exc.type = "ImportError"
                 /\ LibrariesNamed(export_call.exc.msg) = {"python-docx"}
                 /\ dialog.kind = "showerror"
                 /\ file = export_call.before
        /\ export_call.docx = "error"
              => /\ export_call.stage = "failed"
                 /\ export_call.exc.msg[1] = "Error during DOCX export: "
                 /\ file = export_call.before
        /\ (export_call.docx = "ok" /\ export_call.io = "ok")
              => /\ export_call.stage = "done"
                 /\ file.exists
                 /\ file.data[1] = "docx"

C11_Witness ==
    /\ Exported("docx")
    /\ export_call.docx = "missing"
    /\ export_call.before = OldFile
    /\ dialog.kind = "showerror"

\* the RTF form of each character
RtfEntity ==
    [c \in Chars \cup Range(ExampleText) \cup {"\n"} |->
        CASE c = "\\" -> <<"\\", "\\">>
          [] c = "{" -> <<"\\", "{">>
          [] c = "}" -> <<"\\", "}">>
          [] c = "\n" -> <<"\\", "p", "a", "r", " ">>
          [] OTHER -> <<c>>]

\* the part of an RTF document between the header with its font selection
\* and the footer
RtfBlock(data) == SubSeq(data, Len(rtf_header) + 2, Len(data) - Len(rtf_footer))

\* C12: export_rtf writes the header, the text with each character
\* transformed exactly once (backslash doubled, braces preceded by a
\* backslash, newline as \par followed by a space, the backslashes so
\* introduced left alone), and the footer.
C12_RtfEscapesEachCharOnce ==
    (Exported("rtf") /\ export_call.stage = "done")
        => /\ RtfBlock(file.data) = FlatMap(RtfEntity, export_call.text)
           /\ SubSeq(file.data, 1, Len(rtf_header)) = rtf_header
           /\ file.data[Len(file.data)] = "}"
           /\ Len(file.data) = Len(rtf_header) + 1 + Len(RtfBlock(file.data)) + Len(rtf_footer)

C12_Witness ==
    /\ Exported("rtf")
    /\ export_call.stage = "done"
    /\ export_call.text = <<"\\", "{", "\n">>
    /\ RtfBlock(file.data) = <<"\\", "\\", "\\", "{", "\\", "p", "a", "r", " ">>

\* C18: whatever the format field holds and whatever the exporter does, an
\* export_results activation that got to work (text present, no cancelled
\* save dialog) ends with a warning, error or success dialog and lets no
\* exception out.
C18_EveryExportEndsInADialog ==
    export_call.stage \notin {"none", "cancel"} =>
        /\ export_call.stage # "escaped"
        /\ export_call.stage \in {"empty", "done", "failed"}
        /\ dialog.kind \in {"showwarning", "showerror", "showinfo"}

\* the number of backslashes that end at position i of data
RECURSIVE BackslashesUpTo(_, _)
BackslashesUpTo(data, i) ==
    IF i = 0 \/ data[i] # "\\" THEN 0 ELSE 1 + BackslashesUpTo(data, i - 1)

\* the brace at position i of data is not escaped by a backslash
Brace(data, i, brace) == data[i] = brace /\ BackslashesUpTo(data, i - 1) % 2 = 0

\* the nesting depth of the groups after the first n tokens of data
Depth(data, n) ==
    Cardinality({i \in 1..n : Brace(data, i, "{")})
        - Cardinality({i \in 1..n : Brace(data, i, "}")})

\* C25: the document export_rtf writes is one group: its unescaped braces
\* balance, the depth is positive everywhere before the last closing brace,
\* and so the content is inside the group opened by the first brace.
C25_RtfIsOneGroup ==
    (Exported("rtf") /\ export_call.stage = "done")
        => /\ Depth(file.data, Len(file.data)) = 0
           /\ \A n \in 1..(Len(file.data) - 1) : Depth(file.data, n) > 0

(***************************************************************************)
(* Properties of recognition.                                              *)
(***************************************************************************)
\* the operation has handed something to its caller
Done == result # NoResult

\* the operation returned its normal result
Recognized(kind) ==
    Done /\ source.kind = kind /\ result.raised = NoExc /\ result.value.kind = kind

RECURSIVE SumAt(_, _)
SumAt(conf, idx) ==
    IF idx = {} THEN 0
    ELSE LET i == CHOOSE j \in idx : TRUE IN conf[i] + SumAt(conf, idx \ {i})

\* C3: the average confidence process_image reports is 0 when no token has
\* a confidence other than the sentinel -1, and otherwise the sum of the
\* values other than -1 divided by their number.
C3_AverageConfidence ==
    Recognized("image") =>
        LET conf == source.ocr.conf
            real == {i \in 1..Len(conf) : conf[i] # -1}
        IN  result.value.confidence =
                IF real = {} THEN Zero ELSE Mean(SumAt(conf, real), Cardinality(real))

C3_Witness ==
    /\ Recognized("image")
    /\ source.ocr.conf = <<Sentinel, 40>>
    /\ result.value.confidence = Mean(40, 1)

\* the detection pass named a language that is installed
DetectedInstalled ==
    source.det.kind = "lang" /\ source.det.code \in Range(config.tesseract_languages)

\* auto-detection ran: the box is ticked and, for a PDF, there is a first page
AutoDetected ==
    /\ Recognized("image") \/ Recognized("pdf")
    /\ config.auto_detect
    /\ source.kind = "pdf" => Len(source.pages) > 0

\* C4: with auto-detect on, the full pass uses the detected language only
\* when it is installed and the selected language in every other case (not
\* installed, blank sample, exception), and the result names the selected
\* language, the case that occurred and the language used.
C4_DetectedLanguageOnlyIfInstalled ==
    AutoDetected =>
        /\ result.value.used = IF DetectedInstalled THEN source.det.code ELSE config.lang_var
        /\ result.value.selected = config.lang_var
        /\ result.value.detected =
              CASE DetectedInstalled -> <<source.det.code>>
                [] source.det.kind = "lang" ->
                        <<source.det.code, " (Tesseract pack not installed)">>
                [] source.det.kind = "empty" ->
                        <<"None (no text detected for auto-detection)">>
                [] OTHER -> <<"Error: ", source.det.code>>
        /\ source.kind = "pdf" =>
              \A i \in 1..Len(result.value.languages) :
                 result.value.languages[i] = result.value.used

C4_Witness ==
    /\ AutoDetected
    /\ source.kind = "image"
    /\ source.det = DetLang("en")
    /\ config.lang_var = "eng"
    /\ result.value.used = "en"

C4_WitnessNotInstalled ==
    /\ AutoDetected
    /\ source.kind = "pdf"
    /\ source.det = DetLang("pt")
    /\ result.value.languages = <<"eng", "eng">>

\* an exception reaches the outer handler of the operation
OuterFault ==
    IF source.kind = "image"
    THEN \/ source.load = "raise"
         \/ config.preprocessing /\ source.pre.cv2 = "raise"
         \/ source.ocr.raises
    ELSE source.fitz = "ok" /\ source.open = "raise"

\* an exception is raised inside an inner handler: the deskew block, the
\* detection pass, one embedded image, the import of fitz
InnerFault ==
    IF source.kind = "image"
    THEN /\ source.load = "ok"
         /\ \/ /\ config.preprocessing
               /\ config.deskew
               /\ source.pre.cv2 = "ok"
               /\ source.pre.hough.raises
            \/ /\ config.auto_detect
               /\ source.det.kind = "raise"
               /\ ~(config.preprocessing /\ source.pre.cv2 = "raise")
    ELSE \/ source.fitz = "missing"
         \/ /\ source.open = "ok"
            /\ \/ \E i \in 1..Len(source.pages) :
                     \E j \in 1..Len(source.pages[i].images) :
                        source.pages[i].images[j].raises
               \/ /\ config.auto_detect
                  /\ Len(source.pages) > 0
                  /\ source.det.kind = "raise"

HasGuidance(text) ==
    /\ Len(text) >= 3
    /\ text[1] \in {"Error processing image: ", "Error processing PDF: "}
    /\ <<text[Len(text)]>> \in {ImageTroubleshooting, PdfTroubleshooting}

\* a recognition call raised: the full pass of process_image, the engine in
\* the detection pass, or the recognition of an embedded image
RecognitionFault ==
    IF source.kind = "image"
    THEN /\ source.load = "ok"
         /\ ~(config.preprocessing /\ source.pre.cv2 = "raise")
         /\ \/ source.ocr.raises
            \/ config.auto_detect /\ source.det = DetRaises("TesseractError")
    ELSE /\ source.fitz = "ok"
         /\ source.open = "ok"
         /\ \/ \E i \in 1..Len(source.pages) :
                  \E j \in 1..Len(source.pages[i].images) :
                     source.pages[i].images[j].raises
            \/ /\ config.auto_detect
               /\ Len(source.pages) > 0
               /\ source.det = DetRaises("TesseractError")

\* C6 as stated, for the exceptions of recognition calls: process_image and
\* process_pdf never raise, and whenever a recognition call raised they
\* return the error message followed by troubleshooting guidance.
C6_EveryExceptionReturnsGuidance ==
    Done =>
        /\ result.raised = NoExc
        /\ RecognitionFault
              => result.value.kind = "error" /\ HasGuidance(result.value.text)

\* C6 amended: process_image and process_pdf never raise; an exception
\* that reaches the outer handler is returned as the error message
\* followed by troubleshooting guidance; an exception caught by an inner
\* handler alone (deskew block, detection pass, one embedded image) leaves
\* the normal result, and a missing PyMuPDF returns an install message
\* without the troubleshooting list.
C6_NeverRaises ==
    Done =>
        /\ result.raised = NoExc
        /\ OuterFault
              => /\ result.value.kind = "error"
                 /\ HasGuidance(result.value.text)
                 /\ "outer" \in result.value.caught
        /\ (~OuterFault /\ source.kind = "pdf" /\ source.fitz = "missing")
              => result.value.kind = "error" /\ ~HasGuidance(result.value.text)
        /\ (~OuterFault /\ ~(source.kind = "pdf" /\ source.fitz = "missing"))
              => /\ result.value.kind = source.kind
                 /\ InnerFault <=> result.value.caught # {}

C6_Witness ==
    /\ Done
    /\ OuterFault
    /\ InnerFault
    /\ source.kind = "image"
    /\ source.ocr.raises
    /\ result.value.caught = {"deskew", "detect", "outer"}

C6_WitnessInner ==
    /\ Recognized("pdf")
    /\ ~OuterFault
    /\ result.value.caught = {"detect", "image"}

\* the positions of the calls of one kind in the calls of a PDF run
CallsOf(op) ==
    {i \in 1..Len(result.value.calls) : result.value.calls[i].op = op}

\* the embedded images of the source as (page, index) pairs
ImagesOf(pages) ==
    UNION {{<<p, j>> : j \in 1..Len(pages[p].images)} : p \in 1..Len(pages)}

\* C13: in process_pdf with auto-detect on, the detection pass runs at most
\* once, on the first page and before every recognition call; each embedded
\* image of each page gets one recognition call, every one with the
\* language resolved by that pass, and no later page or image is detected
\* again.
C13_DetectionOncePerDocument ==
    (Recognized("pdf") /\ config.auto_detect) =>
        LET calls == result.value.calls IN
        /\ Cardinality(CallsOf("detect")) <= 1
        /\ CallsOf("detect") = IF Len(source.pages) > 0 THEN {1} ELSE {}
        /\ \A i \in CallsOf("detect") : calls[i].page = 1
        /\ \A i \in CallsOf("recognize") : calls[i].lang = result.value.used
        /\ {<<calls[i].page, calls[i].image>> : i \in CallsOf("recognize")}
              = ImagesOf(source.pages)
        /\ Cardinality(CallsOf("recognize")) = Cardinality(ImagesOf(source.pages))

C13_Witness ==
    /\ Recognized("pdf")
    /\ config.auto_detect
    /\ source.det = DetLang("en")
    /\ config.lang_var = "eng"
    /\ Len(source.pages) = 2
    /\ Len(source.pages[1].images) = 1
    /\ Len(source.pages[2].images) = 1
    /\ result.value.calls[3] = RecognizeCall(2, 1, "en")

\* the entries of the result that belong to the images of page p
ImageKinds == {"image_ocr", "image_no_text", "image_error"}

EntriesOfPage(entries, p, kinds) ==
    SelectSeq(entries, LAMBDA e : e.page = p /\ e.kind \in kinds)

\* the entry one embedded image gets on its own
OwnKind(img) ==
    CASE img.raises -> "image_error"
      [] ~IsBlank(img.text) -> "image_ocr"
      [] OTHER -> "image_no_text"

\* C14: when the document opens, an exception in one embedded image gives
\* an error entry for that image alone: every image of every page has its
\* own entry, decided by its own outcome, the native text of every page
\* with text is there, and the entries are in page order, each page's text
\* before its images and its images in their order.
C14_ImagesAreIndependent ==
    (Done /\ source.kind = "pdf" /\ source.fitz = "ok" /\ source.open = "ok") =>
        /\ Recognized("pdf")
        /\ LET entries == result.value.entries IN
           /\ \A i \in 1..Len(entries) - 1 : entries[i].page <= entries[i + 1].page
           /\ \A i \in 1..Len(entries) : entries[i].page \in 1..Len(source.pages)
           /\ \A p \in 1..Len(source.pages) :
                 LET page == source.pages[p]
                     own == EntriesOfPage(entries, p, ImageKinds)
                     all == EntriesOfPage(entries, p,
                                          ImageKinds \cup {"regular_text", "images_found"})
                 IN  /\ Len(own) = Len(page.images)
                     /\ \A j \in 1..Len(own) :
                           own[j] = Entry(p, OwnKind(page.images[j]), j)
                     /\ Len(EntriesOfPage(entries, p, {"regular_text"}))
                           = IF page.text THEN 1 ELSE 0
                     /\ page.text => all[1].kind = "regular_text"
                     /\ Len(all) = Len(own) + (IF page.text THEN 1 ELSE 0)
                                      + (IF page.images # <<>> THEN 1 ELSE 0)
                     /\ \A j \in 1..Len(own) : all[Len(all) - Len(own) + j] = own[j]

C14_Witness ==
    /\ Recognized("pdf")
    /\ Len(source.pages) = 2
    /\ source.pages[1].images = <<OcrRaises, OcrData(<<100>>, <<"t", "\n">>)>>
    /\ source.pages[2].text
    /\ result.value.entries =
          <<Entry(1, "images_found", 2), Entry(1, "image_error", 1),
            Entry(1, "image_ocr", 2), Entry(2, "regular_text", 0)>>

\* the tokens of the images that did not raise which carry a confidence
CountedTokens(pages) ==
    UNION {{<<pj[1], pj[2], k>> :
                k \in {n \in 1..Len(pages[pj[1]].images[pj[2]].conf) :
                            /\ ~pages[pj[1]].images[pj[2]].raises
                            /\ pages[pj[1]].images[pj[2]].conf[n] # -1}} :
            pj \in ImagesOf(pages)}

RECURSIVE SumOver(_, _)
SumOver(pages, tokens) ==
    IF tokens = {} THEN 0
    ELSE LET t == CHOOSE x \in tokens : TRUE
         IN  pages[t[1]].images[t[2]].conf[t[3]] + SumOver(pages, tokens \ {t})

\* C15: the confidence process_pdf reports is 0 when no embedded image that
\* was recognized has a token with a confidence other than -1, and
\* otherwise the sum of those confidences over all such images divided by
\* their number; an image whose recognition raised adds nothing.
C15_TokenWeightedMean ==
    Recognized("pdf") =>
        LET tokens == CountedTokens(source.pages) IN
        result.value.confidence =
            IF tokens = {} THEN Zero
            ELSE Mean(SumOver(source.pages, tokens), Cardinality(tokens))

C15_Witness ==
    /\ Recognized("pdf")
    /\ AllImages(source.pages) = <<OcrData(<<100>>, <<"t", "\n">>),
                                   OcrData(<<Sentinel, 40, 40>>, <<"t", "\n">>)>>
    /\ result.value.confidence = Mean(180, 3)

C15_WitnessRaised ==
    /\ Recognized("pdf")
    /\ AllImages(source.pages) = <<OcrStringRaises(<<100>>), OcrData(<<100>>, <<"t", "\n">>)>>
    /\ result.value.confidence = Mean(100, 1)

\* the languages of the -l option of the full recognition passes of the run
LanguagesOfFullPasses ==
    IF source.kind = "image" THEN {result.value.used}
    ELSE {result.value.calls[i].lang : i \in CallsOf("recognize")}

\* C23: the language list is not empty after start-up, the selected
\* language is one of the list, and every full recognition pass gets a
\* language of the list, with auto-detection or without.
C23_LanguageIsInstalled ==
    /\ config # NoConfig =>
          /\ config.tesseract_languages # <<>>
          /\ config.lang_var \in Range(config.tesseract_languages)
    /\ (Recognized("image") \/ Recognized("pdf")) =>
          LanguagesOfFullPasses \subseteq Range(config.tesseract_languages)

\* only en is installed: start-up selects it instead of eng, and an image
\* whose sample is detected as pt is recognized with en
C23_Witness ==
    /\ Recognized("image")
    /\ config.tesseract_languages = <<"en">>
    /\ config.auto_detect
    /\ source.det = DetLang("pt")
    /\ LanguagesOfFullPasses = {"en"}

\* no pack is installed: the default list, and the detected en replaces
\* nothing
C23_WitnessDefaultList ==
    /\ Recognized("pdf")
    /\ config.tesseract_languages = DefaultLanguages
    /\ config.lang_var = "por"
    /\ config.auto_detect
    /\ source.det = DetLang("en")
    /\ LanguagesOfFullPasses = {"por"}

(***************************************************************************)
(* Properties of the preprocessing pipeline.                               *)
(***************************************************************************)
Preprocessed == processed # NoBitmap /\ processed.exc = NoExc

C8_DeskewKeepsCanvas ==
    (Preprocessed /\ bitmap.enable_deskew)
        => /\ processed.deskew_out.w = processed.deskew_in.w
           /\ processed.deskew_out.h = processed.deskew_in.h
           /\ processed.image.w = bitmap.img.w
           /\ processed.image.h = bitmap.img.h
           /\ bitmap.env.hough = NoLines => processed.deskew_out = processed.deskew_in

C8_Witness ==
    /\ Preprocessed
    /\ bitmap.enable_deskew
    /\ processed.deskew_out.rotated_by = Deg(30)
    /\ bitmap.img.w # bitmap.img.h

C8_WitnessNoLines ==
    /\ Preprocessed
    /\ bitmap.enable_deskew
    /\ bitmap.env.hough = NoLines

\* the deskew block found lines
LinesFound == ~bitmap.env.hough.raises /\ bitmap.env.hough.size > 0

\* the angle congruent to a modulo 90 degrees that lies in [-90, 0) for a
\* above 45 degrees and in [0, 90) for a below -45 degrees, and a itself
\* when its magnitude is at most 45 degrees
Folded(a) ==
    CHOOSE n \in -Deg(90)..Deg(90) :
        /\ (n - a) % Deg(90) = 0
        /\ CASE Abs(a) <= Deg(45) -> n = a
             [] a > 0 -> n >= -Deg(90) /\ n < 0
             [] OTHER -> n >= 0 /\ n < Deg(90)

\* the deskew block rotated the bitmap
Rotated == processed.deskew_out # processed.deskew_in

\* C19 as stated: with deskew on and lines found the bitmap is rotated
\* exactly when the magnitude of the normalized angle exceeds 0.1 degree,
\* and the angle given to rotate is the negative of the normalized angle.
C19_RotatesByNegativeAngle ==
    (Preprocessed /\ bitmap.enable_deskew /\ LinesFound /\ bitmap.env.hough.rotate = "ok")
        => /\ Rotated <=> Abs(Folded(bitmap.env.hough.mean)) > SignificantAngle
           /\ Rotated => processed.deskew_out.rotated_by = -Folded(bitmap.env.hough.mean)

\* C19 amended: with deskew on and lines found the bitmap is rotated
\* exactly when the magnitude of the normalized angle exceeds 0.1 degree,
\* and the angle given to rotate is the normalized angle itself, with its
\* sign.
C19_RotatesByNormalizedAngle ==
    (Preprocessed /\ bitmap.enable_deskew /\ LinesFound /\ bitmap.env.hough.rotate = "ok")
        => /\ Rotated <=> Abs(Folded(bitmap.env.hough.mean)) > SignificantAngle
           /\ Rotated =>
                 /\ processed.deskew_out.rotated_by = Folded(bitmap.env.hough.mean)
                 /\ processed.deskew_out.steps = Append(processed.deskew_in.steps, "rotate")

C19_Witness ==
    /\ Preprocessed
    /\ bitmap.enable_deskew
    /\ bitmap.env.hough = Lines(Deg(60))
    /\ processed.deskew_out.rotated_by = -Deg(30)

C19_WitnessBelowThreshold ==
    /\ Preprocessed
    /\ bitmap.enable_deskew
    /\ bitmap.env.hough = Lines(2)
    /\ ~Rotated

\* a call of the deskew block raises: the estimation, or rotate when the
\* angle is large enough for it to be called
DeskewFault ==
    \/ bitmap.env.hough.raises
    \/ /\ LinesFound
       /\ bitmap.env.hough.rotate = "raises"
       /\ Abs(Folded(bitmap.env.hough.mean)) > SignificantAngle

\* C20: an exception in the deskew block does not leave
\* process_image_for_ocr: it is logged, the bitmap goes on as it entered
\* the block, unrotated, the threshold step runs on it and an image is
\* returned.
C20_DeskewFailureIsNotFatal ==
    (processed # NoBitmap /\ bitmap.enable_deskew /\ bitmap.env.cv2 = "ok" /\ DeskewFault)
        => /\ processed.exc = NoExc
           /\ processed.log # <<>>
           /\ processed.log[1] = "Deskewing failed: "
           /\ processed.deskew_out = processed.deskew_in
           /\ processed.deskew_out.rotated_by = 0
           /\ processed.image.binary
           /\ processed.image.steps =
                 Append(processed.deskew_in.steps,
                        IF bitmap.enable_adaptive_threshold THEN "adaptive" ELSE "otsu")

C20_Witness ==
    /\ Preprocessed
    /\ bitmap.enable_deskew
    /\ bitmap.env.hough = LinesRotateRaises(Deg(30))
    /\ processed.log = <<"Deskewing failed: ", "rotate">>

C20_WitnessEstimation ==
    /\ Preprocessed
    /\ bitmap.enable_deskew
    /\ bitmap.env.hough = HoughRaises
    /\ processed.log = <<"Deskewing failed: ", "hough">>

\* the deskew block found lines whose mean angle is in [-90, 90) degrees and
\* rotated the bitmap by the angle it made of it
RotatedByEstimate ==
    /\ Preprocessed
    /\ bitmap.enable_deskew
    /\ LinesFound
    /\ bitmap.env.hough.mean >= Deg(-90)
    /\ bitmap.env.hough.mean < Deg(90)
    /\ Rotated

\* C22: a mean line angle in [-90, 90) degrees is normalized to an angle in
\* [-45, 45] degrees: an angle of magnitude at most 45 degrees is kept, a
\* larger one is changed by a multiple of 90 degrees.
C22_NormalizedAngleWithin45 ==
    RotatedByEstimate =>
        /\ processed.deskew_out.rotated_by >= Deg(-45)
        /\ processed.deskew_out.rotated_by <= Deg(45)
        /\ Abs(bitmap.env.hough.mean) <= Deg(45)
              => processed.deskew_out.rotated_by = bitmap.env.hough.mean
        /\ (processed.deskew_out.rotated_by - bitmap.env.hough.mean) % Deg(90) = 0

C22_Witness ==
    /\ RotatedByEstimate
    /\ bitmap.env.hough.mean = Deg(45) + 1
    /\ processed.deskew_out.rotated_by = Deg(-45) + 1

C22_WitnessNegative ==
    /\ Preprocessed
    /\ bitmap.enable_deskew
    /\ bitmap.env.hough = Lines(Deg(-60))
    /\ processed.deskew_out.rotated_by = Deg(30)

\* -90 degrees, the lowest angle of the range, becomes 0 and nothing is
\* rotated
C22_WitnessLowestAngle ==
    /\ Preprocessed
    /\ bitmap.enable_deskew
    /\ LinesFound
    /\ bitmap.env.hough.rotate = "ok"
    /\ bitmap.env.hough.mean = Deg(-90)
    /\ ~Rotated

(***************************************************************************)
(* Properties of the window.                                               *)
(***************************************************************************)
ProcessFileActivations == {i \in 1..Len(stack) : stack[i].fn = "process_file"}

\* C16: at most one process_file activation is in progress at any time: an
\* event that arrives while one is running (its root.update() included)
\* starts no second one before the first has returned.
C16_OneProcessFileAtATime == Cardinality(ProcessFileActivations) <= 1

\* a paste_from_clipboard activation that saved a temporary file has
\* returned
PasteReturned == last_paste.path # NoPath

\* C17: the temporary file of a paste_from_clipboard call is created,
\* recognized by the process_file of that call and deleted before the call
\* returns: it is gone at the return when the removal succeeded, and a
\* failed removal shows no error and the success dialog follows.
C17_TempFileUsedAndDeleted ==
    PasteReturned =>
        /\ last_paste.seen = last_paste.path
        /\ last_paste.remove = "ok" => ~last_paste.left
        /\ last_paste.dialog = "showinfo"

\* process_file has set the status and the button of lines 581-582 and has
\* not returned yet
ProcessingStarted == last_process.phase = "processing"

\* process_file has run its try block and returned
ProcessFileReturned == last_process.phase = "returned"

\* an activation of process_file is between line 582 and its return
InProcessing ==
    \E i \in 1..Len(stack) :
        stack[i].fn = "process_file" /\ stack[i].pc \in {"update", "run"}

C21_WitnessSuccess ==
    /\ ProcessFileReturned
    /\ last_process.out = "text"
    /\ stack = <<>>
    /\ status_label = "Complete! Ready to export."
    /\ process_btn = "normal"

\* C24: when the engine was not found at start-up, the Extract button stays
\* disabled whatever the user does, and no process_file gets to the
\* recognition of lines 585-589.
C24_NoRecognitionWithoutEngine ==
    ~tesseract_available =>
        /\ process_btn = "disabled"
        /\ ~ProcessFileReturned

\* C26: a recognition failure, which process_image and process_pdf return as
\* text, ends process_file with the status "Complete! Ready to export.", the
\* error text in the results area and no error dialog; the status "Error"
\* and the error dialog come only with an exception in the try block; and a
\* paste_from_clipboard that called process_file shows its success dialog
\* when it returns, whatever process_file did.
C26_FailureTextCountsAsComplete ==
    /\ ProcessFileReturned =>
          /\ last_process.out = "error_text" =>
                /\ last_process.status_label = "Complete! Ready to export."
                /\ last_process.results_text = <<"Error processing image: ">>
                /\ last_process.dialog = "none"
          /\ (last_process.status_label = "Error" \/ last_process.dialog = "showerror")
                => last_process.out = "raises"
          /\ last_process.out = "raises" =>
                /\ last_process.status_label = "Error"
                /\ last_process.dialog = "showerror"
    /\ PasteReturned => last_paste.dialog = "showinfo"

\* the engine is missing, the pasted image cannot be recognized, and the
\* window says complete and success
C26_Witness ==
    /\ stack = <<>>
    /\ PasteReturned
    /\ ProcessFileReturned
    /\ last_process.path = last_paste.path
    /\ last_process.out = "error_text"
    /\ status_label = "Complete! Ready to export."
    /\ results_text = <<"Error processing image: ">>
    /\ dialog.kind = "showinfo"

\* the try block of process_file raised inside a paste
C26_WitnessRaised ==
    /\ stack = <<>>
    /\ PasteReturned
    /\ ProcessFileReturned
    /\ last_process.path = last_paste.path
    /\ last_process.out = "raises"
    /\ status_label = "Error"
    /\ dialog.kind = "showinfo"

\* the process_file of a paste found no file and the success dialog
\* followed
C26_WitnessNotFound ==
    /\ stack = <<>>
    /\ PasteReturned
    /\ last_paste.seen = NoPath
    /\ dialog.kind = "showinfo"

====
